---- MODULE Spec2Model ----
(***************************************************************************)
(* ChatCompletionAPI (completion-gpt-api): the per-conversation message    *)
(* cache and the assembly of the message list submitted to the chat        *)
(* completion endpoint.                                                    *)
(*                                                                         *)
(* JavaScript objects are functions from keys to values; an optional key   *)
(* that is not given is absent from the domain.  Arrays are heap objects:  *)
(* the cache maps a conversation id to an array reference, and `heap`      *)
(* holds the contents of the arrays the cache refers to.                   *)
(***************************************************************************)
EXTENDS Integers, Sequences, FiniteSets, TLC

\* ---------------------------------------------------------------- bounds
MaxCap == 3         \* maxMessages options given to the constructor: 1..MaxCap
MaxCalls == 2       \* sendMessage calls made on the instance
MaxSets == 1        \* setMessageHistory calls made on the instance
MaxSetLen == 3      \* length of a message array handed to setMessageHistory

\* ------------------------------------------------------- program constants
Undefined == "undefined"
DEFAULT_MODEL == "gpt-3.5-turbo"
DEFAULT_MAX_MESSAGES == 100
DEFAULT_SYSTEM_MESSAGE == "You are a helpful assistant."

\* ---------------------------------------------------------- JS primitives
NoKeys == [k \in {} |-> Undefined]
Has(o, k) == k \in DOMAIN o
Get(o, k) == IF k \in DOMAIN o THEN o[k] ELSE Undefined
\* {...a, ...b}
Spread(a, b) == b @@ a
Max(a, b) == IF a > b THEN a ELSE b
Min(a, b) == IF a < b THEN a ELSE b
\* Array.prototype.slice(start): a copy of the elements from `start` on;
\* a negative start counts from the end, and -0 is 0.
Slice(arr, start) ==
  LET len == Len(arr)
      from == IF start < 0 THEN Max(len + start, 0) ELSE Min(start, len)
  IN  SubSeq(arr, from + 1, len)

\* ------------------------------------------------------------ input sets
Convs == {"c1", "c2"}
\* Conversation ids are opaque: callers use "c1" before they use "c2".
ConvOrder == <<"c1", "c2">>
Calls == 1..MaxCalls
\* The text of the k-th sendMessage call.
CallTexts == <<"Hi", "Bye", "Thanks", "Again">>
TextOf(k) == CallTexts[((k - 1) % Len(CallTexts)) + 1]
ReqRoles == {"assistant"}
ReqSystemMessages == {"", "Reply in French."}
CallOpts == {[model |-> "gpt-4", temperature |-> "0.2"]}

CtorApiKeys == {"", "k"}

\* The option objects given to the constructor: without a usable apiKey (with
\* nothing else, and with everything else), with the apiKey alone, with a
\* maxMessages, and with a system message and completion parameters.
ConstructorOpts ==
  LET others == [maxMessages |-> MaxCap, systemMessage |-> "Be terse.",
                 completionParams |-> [temperature |-> "0.5", stop |-> "END"]]
  IN  {NoKeys, others}
      \cup {[apiKey |-> a] : a \in CtorApiKeys}
      \cup {[apiKey |-> "k", maxMessages |-> m] : m \in 1..MaxCap}
      \cup {[apiKey |-> "k", systemMessage |-> others.systemMessage,
              completionParams |-> others.completionParams]}

\* The requests of the k-th sendMessage call: the required fields alone, with
\* a role, and with a system message.
ChatRequests(k) ==
  LET plain(c) == [name |-> "John", text |-> TextOf(k), conversationId |-> c]
  IN  {plain(c) : c \in Convs}
      \cup {Spread(plain(c), [role |-> r]) : c \in Convs, r \in ReqRoles}
      \cup {Spread(plain(c), [systemMessage |-> m]) : c \in Convs, m \in ReqSystemMessages}

OptsArgs == {NoKeys} \cup CallOpts

\* What the completion call resolves with: a first choice carrying a message,
\* no choice at all, or a first choice without a message.
Completions ==
  { [statusText |-> "OK",
     data |-> [id |-> "chatcmpl-1", model |-> "gpt-3.5-turbo",
               choices |-> <<[message |-> [role |-> "assistant", content |-> "Hello"]]>>]],
    [statusText |-> "No Content",
     data |-> [id |-> "chatcmpl-2", model |-> "gpt-3.5-turbo", choices |-> <<>>]],
    [statusText |-> "Accepted",
     data |-> [id |-> "chatcmpl-3", model |-> "gpt-3.5-turbo",
               choices |-> <<[finish_reason |-> "length"]>>]] }

\* What the completion call rejects with.
Failures ==
  { [message |-> "Request failed with status code 401"],
    [message |-> "The model does not exist", type |-> "invalid_request_error",
     param |-> "model", code |-> "model_not_found"] }

\* The conversation a caller loads with setMessageHistory: a prefix of it.
SavedHistory ==
  << [name |-> "User", role |-> "user", content |-> "q1"],
     [role |-> "assistant", content |-> "a1"],
     [name |-> "User", role |-> "user", content |-> "q2"],
     [role |-> "assistant", content |-> "a2"],
     [name |-> "User", role |-> "user", content |-> "q3"] >>
HistoryArgs == {SubSeq(SavedHistory, 1, n) : n \in 0..Min(MaxSetLen, Len(SavedHistory))}

\* ------------------------------------------------------------------ state
VARIABLES
  ctorError,          \* what the constructor threw, or Undefined
  _apiKey, _maxMessages, _systemMessage, _completionParams,
  _messagesCache,     \* conversation id -> array reference
  heap,               \* array reference -> the array's elements
  calls,              \* the frame of each sendMessage call
  nSets,              \* setMessageHistory calls made so far
  sentLog,            \* history: per conversation, the messages successful
                      \*   sendMessage calls were to append, in order
  onlySend,           \* history: the conversation's array was created empty
                      \*   by the instance and only ever bound to it
  overlapped          \* history: a sendMessage call started while another
                      \*   was awaiting its completion

vars == <<ctorError, _apiKey, _maxMessages, _systemMessage, _completionParams,
          _messagesCache, heap, calls, nSets, sentLog, onlySend, overlapped>>

config == <<ctorError, _apiKey, _maxMessages, _systemMessage, _completionParams>>

\* --------------------------------------------------------- the constructor
BuiltinParams ==
  [model |-> DEFAULT_MODEL, temperature |-> "0.8", top_p |-> "1.0",
   presence_penalty |-> "1.0"]

\* Variant: only an absent apiKey is refused (apiKey === undefined).
Constructor_EmptyKeyAccepted(opts) ==
  LET apiKey == Get(opts, "apiKey")
      systemMessage == IF Has(opts, "systemMessage") THEN opts.systemMessage
                       ELSE DEFAULT_SYSTEM_MESSAGE
      maxMessages == IF Has(opts, "maxMessages") THEN opts.maxMessages
                     ELSE DEFAULT_MAX_MESSAGES
      completionParams == IF Has(opts, "completionParams") THEN opts.completionParams
                          ELSE NoKeys
  IN  [completionParams |-> Spread(BuiltinParams, completionParams),
       systemMessage |-> systemMessage,
       apiKey |-> apiKey,
       maxMessages |-> maxMessages,
       error |-> IF apiKey = Undefined
                 THEN "OpenAI missing required apiKey" ELSE Undefined]

Constructor(opts) ==
  LET apiKey == Get(opts, "apiKey")
      systemMessage == IF Has(opts, "systemMessage") THEN opts.systemMessage
                       ELSE DEFAULT_SYSTEM_MESSAGE
      maxMessages == IF Has(opts, "maxMessages") THEN opts.maxMessages
                     ELSE DEFAULT_MAX_MESSAGES
      completionParams == IF Has(opts, "completionParams") THEN opts.completionParams
                          ELSE NoKeys
  IN  [completionParams |-> Spread(BuiltinParams, completionParams),
       systemMessage |-> systemMessage,
       apiKey |-> apiKey,
       maxMessages |-> maxMessages,
       error |-> IF apiKey \in {Undefined, ""}
                 THEN "OpenAI missing required apiKey" ELSE Undefined]

\* ------------------------------------------------------- the message cache
\* The store: the cache and the arrays it refers to.
St == [cache |-> _messagesCache, heap |-> heap]

FreshRef(st) == CHOOSE i \in 1..(Cardinality(Convs) + 1) :
                  /\ i \notin DOMAIN st.heap
                  /\ \A j \in 1..(i - 1) : j \in DOMAIN st.heap

\* Arrays nothing refers to any more are dropped.
Collect(st) ==
  [cache |-> st.cache,
   heap |-> [r \in {st.cache[c] : c \in DOMAIN st.cache} |-> st.heap[r]]]

\* Variant: the cache is replaced by one holding the new entry alone.
BindNew_ResetsCache(st, conversationId, elems) ==
  LET r == FreshRef(st)
  IN  Collect([cache |-> [c \in {conversationId} |-> r],
               heap |-> Spread(st.heap, [x \in {r} |-> elems])])

\* this._messagesCache[conversationId] = <a new array holding elems>
BindNew(st, conversationId, elems) ==
  LET r == FreshRef(st)
  IN  Collect([cache |-> Spread(st.cache, [c \in {conversationId} |-> r]),
               heap |-> Spread(st.heap, [x \in {r} |-> elems])])

\* this._messagesCache[conversationId] = <the array ref>
BindRef(st, conversationId, ref) ==
  Collect([cache |-> Spread(st.cache, [c \in {conversationId} |-> ref]),
           heap |-> st.heap])

\* Variant: trims to maxMessages instead of maxMessages - 1.
getMessageHistory_KeepsMax(st, conversationId) ==
  LET maxMessages == _maxMessages
      st1 == IF conversationId \in DOMAIN st.cache THEN st
             ELSE BindNew(st, conversationId, <<>>)
      ref == st1.cache[conversationId]
      messageHistory == st1.heap[ref]
      trimmed == Len(messageHistory) > maxMessages
  IN  [st |-> st1,
       live |-> ~trimmed,
       ref |-> ref,
       value |-> IF trimmed THEN Slice(messageHistory, -maxMessages)
                 ELSE messageHistory]

\* getMessageHistory: the store after the call, and what it returns: the
\* conversation's own array (live) or a trimmed copy of it.
getMessageHistory(st, conversationId) ==
  LET maxMessages == _maxMessages - 1
      st1 == IF conversationId \in DOMAIN st.cache THEN st
             ELSE BindNew(st, conversationId, <<>>)
      ref == st1.cache[conversationId]
      messageHistory == st1.heap[ref]
      trimmed == Len(messageHistory) > maxMessages
  IN  [st |-> st1,
       live |-> ~trimmed,
       ref |-> ref,
       value |-> IF trimmed THEN Slice(messageHistory, -maxMessages)
                 ELSE messageHistory]

\* Variant: the message is pushed onto the stored array itself.
PushToHistory_AlwaysStored(st, conversationId, message) ==
  LET got == getMessageHistory(st, conversationId)
  IN  [cache |-> got.st.cache,
       heap |-> [got.st.heap EXCEPT ![got.ref] = Append(@, message)]]

\* getMessageHistory(conversationId).push(message)
PushToHistory(st, conversationId, message) ==
  LET got == getMessageHistory(st, conversationId)
  IN  IF got.live
      THEN [cache |-> got.st.cache,
            heap |-> [got.st.heap EXCEPT ![got.ref] = Append(@, message)]]
      ELSE got.st

setMessageHistory(st, conversationId, ref) == BindRef(st, conversationId, ref)

\* What getMessageHistory(c) returns in the current state.
History(c) == getMessageHistory(St, c).value
Histories == [c \in Convs |-> History(c)]

\* ----------------------------------------------------------- buildMessage
\* Variant: the sender's name is not re-emitted.
Emit_NoName(msg) == [name |-> Undefined, role |-> msg.role, content |-> msg.content]

Emit(msg) == [name |-> Get(msg, "name"), role |-> msg.role, content |-> msg.content]

EmitAll(msgs) == [i \in 1..Len(msgs) |-> Emit(msgs[i])]

\* Variant: an empty per-request system message falls back to the instance's
\* (systemMessage || this._systemMessage).
buildMessage_FalsyFallsBack(st, conversationId, message, systemMessageArg) ==
  LET systemMessage == IF systemMessageArg \in {Undefined, ""} THEN _systemMessage
                       ELSE systemMessageArg
      got == getMessageHistory(st, conversationId)
      messagesInput ==
        <<[content |-> systemMessage, role |-> "system"]>>
        \o [i \in 1..Len(got.value) |->
              [name |-> Get(got.value[i], "name"), role |-> got.value[i].role,
               content |-> got.value[i].content]]
        \o <<[name |-> Get(message, "name"),
              role |-> IF Get(message, "role") \in {Undefined, ""} THEN "user"
                       ELSE message.role,
              content |-> message.content]>>
  IN  [st |-> got.st,
       request |-> [model |-> _completionParams.model, messages |-> messagesInput]]

buildMessage(st, conversationId, message, systemMessageArg) ==
  LET systemMessage == IF systemMessageArg = Undefined THEN _systemMessage
                       ELSE systemMessageArg
      got == getMessageHistory(st, conversationId)
      messagesInput ==
        <<[content |-> systemMessage, role |-> "system"]>>
        \o EmitAll(got.value)
        \o <<[name |-> Get(message, "name"),
              role |-> IF Get(message, "role") \in {Undefined, ""} THEN "user"
                       ELSE message.role,
              content |-> message.content]>>
  IN  [st |-> got.st,
       request |-> [model |-> _completionParams.model, messages |-> messagesInput]]

\* ------------------------------------------------------------ CompletionError
\* Variant: an error built without a type is given one.
CompletionError_TypeDefaults(message, type, param, code) ==
  [class |-> "CompletionError", message |-> message,
   type |-> IF type = Undefined THEN "api_error" ELSE type,
   param |-> param, code |-> code]

\* new CompletionError(message, type?, param?, code?)
CompletionError(message, type, param, code) ==
  [class |-> "CompletionError", message |-> message, type |-> type,
   param |-> param, code |-> code]

\* Variant: only the message of the caught failure is forwarded.
Rethrow_MessageOnly(e) ==
  CompletionError(Get(e, "message"), Undefined, Undefined, Undefined)

\* catch (e) { throw new CompletionError(e.message, e.type, e.param, e.code) }
Rethrow(e) ==
  CompletionError(Get(e, "message"), Get(e, "type"), Get(e, "param"), Get(e, "code"))

\* The ids a caller passes next: those the cache has, and the first it has not.
Usable ==
  {ConvOrder[i] : i \in {n \in 1..Len(ConvOrder) :
                           \A j \in 1..(n - 1) : ConvOrder[j] \in DOMAIN _messagesCache}}

\* -------------------------------------------------------------------- Init
IdleFrame == [pc |-> "idle"]

Init ==
  \E opts \in ConstructorOpts :
    LET made == Constructor(opts)
    IN  /\ ctorError = made.error
        /\ _apiKey = made.apiKey
        /\ _maxMessages = made.maxMessages
        /\ _systemMessage = made.systemMessage
        /\ _completionParams = made.completionParams
        /\ _messagesCache = NoKeys
        /\ heap = NoKeys
        /\ calls = [k \in Calls |-> IdleFrame]
        /\ nSets = 0
        /\ sentLog = [c \in Convs |-> <<>>]
        /\ onlySend = [c \in Convs |-> TRUE]
        /\ overlapped = FALSE

\* The constructor returned an instance.
Ready == ctorError = Undefined

\* ----------------------------------------------------------------- actions
\* sendMessage up to its await: the request is built from the history as it
\* stands and handed to createChatCompletion.  `read` records what
\* getMessageHistory returned to buildMessage.
SendMessage(k, chatRequest, opts) ==
  LET name == chatRequest.name
      text == chatRequest.text
      conversationId == chatRequest.conversationId
      role == IF Has(chatRequest, "role") THEN chatRequest.role ELSE "user"
      systemMessage == Get(chatRequest, "systemMessage")
      built == buildMessage(St, conversationId,
                            Spread([name |-> name, content |-> text, role |-> role], opts),
                            systemMessage)
  IN  /\ Ready
      /\ calls[k].pc = "idle"
      /\ \A j \in 1..(k - 1) : calls[j].pc # "idle"
      /\ _messagesCache' = built.st.cache
      /\ heap' = built.st.heap
      /\ calls' = [calls EXCEPT ![k] =
           [pc |-> "awaiting", name |-> name, text |-> text,
            conversationId |-> conversationId, role |-> role,
            chatCompletionRequest |-> built.request,
            read |-> History(conversationId)]]
      /\ overlapped' = (overlapped \/ \E j \in Calls : calls[j].pc = "awaiting")
      /\ UNCHANGED <<config, nSets, sentLog, onlySend>>

\* completion.data?.choices[0]?.message
HasMessage(completion) ==
  /\ Len(completion.data.choices) > 0
  /\ Has(completion.data.choices[1], "message")

Outgoing(f) == [content |-> f.text, name |-> f.name, role |-> f.role]
Incoming(completion) ==
  [content |-> completion.data.choices[1].message.content,
   role |-> completion.data.choices[1].message.role]

\* Variant: a call that finds the history changed since it read it appends
\* nothing.
StoreExchange_SkipsOnConflict(st, f, completion) ==
  IF getMessageHistory(st, f.conversationId).value = f.read
  THEN PushToHistory(PushToHistory(st, f.conversationId, Outgoing(f)),
                     f.conversationId, Incoming(completion))
  ELSE st

\* Variant: the call writes back the history it read, extended by its pair.
StoreExchange_OverwritesWithRead(st, f, completion) ==
  BindNew(st, f.conversationId, f.read \o <<Outgoing(f), Incoming(completion)>>)

\* Variant: the incoming message is pushed before the outgoing one.
StoreExchange_IncomingFirst(st, f, completion) ==
  PushToHistory(PushToHistory(st, f.conversationId, Incoming(completion)),
                f.conversationId, Outgoing(f))

\* The two pushes of a successful call.
StoreExchange(st, f, completion) ==
  PushToHistory(PushToHistory(st, f.conversationId, Outgoing(f)),
                f.conversationId, Incoming(completion))

\* createChatCompletion resolves and sendMessage runs to its end.
CompletionResolves(k, completion) ==
  LET f == calls[k]
      c == f.conversationId
  IN  /\ Ready
      /\ f.pc = "awaiting"
      /\ IF HasMessage(completion)
         THEN LET st2 == StoreExchange(St, f, completion)
              IN  /\ _messagesCache' = st2.cache
                  /\ heap' = st2.heap
                  /\ calls' = [calls EXCEPT ![k] =
                       [pc |-> "returned",
                        result |-> [content |-> Incoming(completion).content,
                                    detail |-> completion.data,
                                    role |-> Incoming(completion).role]]]
                  /\ sentLog' = [sentLog EXCEPT ![c] =
                       @ \o <<Outgoing(f), Incoming(completion)>>]
         ELSE /\ calls' = [calls EXCEPT ![k] =
                   [pc |-> "threw",
                    error |-> Rethrow(CompletionError(completion.statusText,
                                         Undefined, Undefined, Undefined))]]
              /\ UNCHANGED <<_messagesCache, heap, sentLog>>
      /\ UNCHANGED <<config, nSets, onlySend, overlapped>>

\* Variant: the outgoing message is stored although the call fails.
CompletionRejects_StoresOutgoing(k, e) ==
  LET f == calls[k]
      st2 == PushToHistory(St, f.conversationId,
                           [content |-> f.text, name |-> f.name, role |-> f.role])
  IN  /\ Ready
      /\ f.pc = "awaiting"
      /\ calls' = [calls EXCEPT ![k] = [pc |-> "threw", error |-> Rethrow(e)]]
      /\ _messagesCache' = st2.cache
      /\ heap' = st2.heap
      /\ UNCHANGED <<config, nSets, sentLog, onlySend, overlapped>>

\* createChatCompletion rejects and sendMessage rethrows.
CompletionRejects(k, e) ==
  LET f == calls[k]
  IN  /\ Ready
      /\ f.pc = "awaiting"
      /\ calls' = [calls EXCEPT ![k] = [pc |-> "threw", error |-> Rethrow(e)]]
      /\ UNCHANGED <<config, _messagesCache, heap, nSets, sentLog, onlySend, overlapped>>

\* A caller's getMessageHistory(conversationId).
GetMessageHistory(conversationId) ==
  LET got == getMessageHistory(St, conversationId)
  IN  /\ Ready
      /\ _messagesCache' = got.st.cache
      /\ heap' = got.st.heap
      /\ UNCHANGED <<config, calls, nSets, sentLog, onlySend, overlapped>>

\* A caller's setMessageHistory(conversationId, messageHistory) with an array
\* of its own.
SetMessageHistory(conversationId, messageHistory) ==
  LET st1 == BindNew(St, conversationId, messageHistory)
  IN  /\ Ready
      /\ nSets < MaxSets
      /\ nSets' = nSets + 1
      /\ _messagesCache' = st1.cache
      /\ heap' = st1.heap
      /\ onlySend' = [onlySend EXCEPT ![conversationId] = FALSE]
      /\ UNCHANGED <<config, calls, sentLog, overlapped>>

\* A caller's setMessageHistory(conversationId, a) where a is the array the
\* instance holds for conversation `other` (got from getMessageHistory(other)
\* or handed to setMessageHistory(other, a) before).
SetMessageHistoryShared(conversationId, other) ==
  LET st1 == setMessageHistory(St, conversationId, _messagesCache[other])
  IN  /\ Ready
      /\ nSets < MaxSets
      /\ other \in DOMAIN _messagesCache
      /\ other # conversationId
      /\ nSets' = nSets + 1
      /\ _messagesCache' = st1.cache
      /\ heap' = st1.heap
      /\ onlySend' = [c \in Convs |-> onlySend[c] /\ c \notin {conversationId, other}]
      /\ UNCHANGED <<config, calls, sentLog, overlapped>>

Next ==
  \/ \E k \in Calls :
       \E chatRequest \in {r \in ChatRequests(k) : r.conversationId \in Usable},
          opts \in OptsArgs :
         SendMessage(k, chatRequest, opts)
  \/ \E k \in Calls, completion \in Completions : CompletionResolves(k, completion)
  \/ \E k \in Calls, e \in Failures : CompletionRejects(k, e)
  \/ \E c \in Usable : GetMessageHistory(c)
  \/ \E c \in Usable, m \in HistoryArgs : SetMessageHistory(c, m)
  \/ \E c \in Usable, d \in Convs : SetMessageHistoryShared(c, d)

Spec == Init /\ [][Next]_vars

\* ------------------------------------------------------------- properties
LastN(s, n) == SubSeq(s, Len(s) - n + 1, Len(s))

\* Call k takes the step named by the two positions.
Moves(k, from, to) == calls[k].pc = from /\ calls'[k].pc = to

\* C1: with maxMessages >= 2, once successful sendMessage calls have appended
\* more than maxMessages - 1 messages to a conversation that started empty,
\* getMessageHistory returns the most recent maxMessages - 1 of them, in order.
C1_RecentKept ==
  \A c \in Convs :
    ( /\ Ready /\ _maxMessages >= 2
      /\ onlySend[c] /\ ~overlapped
      /\ Len(sentLog[c]) > _maxMessages - 1 )
      => History(c) = LastN(sentLog[c], _maxMessages - 1)

\* C2: with maxMessages >= 3, right after a sendMessage call succeeds the last
\* two entries of the conversation's history are its outgoing message and then
\* the incoming message.
C2_ExchangeIsLast ==
  [][\A k \in Calls : Moves(k, "awaiting", "returned") =>
       \A completion \in Completions :
       ( /\ CompletionResolves(k, completion)
         /\ _maxMessages >= 3 )
         => LET h == Histories'[calls[k].conversationId]
            IN  /\ Len(h) >= 2
                /\ LastN(h, 2) = <<Outgoing(calls[k]), Incoming(completion)>>]_vars

\* C3: a sendMessage call that fails (the completion call rejects, or resolves
\* without a message) changes what getMessageHistory returns for no
\* conversation, neither when it builds its request nor when it fails.
C3_FailureKeepsHistories ==
  [][\A k \in Calls :
       (Moves(k, "idle", "awaiting") \/ Moves(k, "awaiting", "threw"))
         => Histories' = Histories]_vars

C3_Witness ==
  \E k \in Calls, c \in Convs :
    /\ calls[k].pc = "threw"
    /\ calls[k].error.message \in {"No Content", "Request failed with status code 401"}
    /\ History(c) # <<>>

\* C4: the completion parameters submitted with the request are the instance
\* parameters overlaid with the per-call overrides, key by key.
C4_ParamsMerged ==
  [][\A k \in Calls : Moves(k, "idle", "awaiting") =>
       \A chatRequest \in ChatRequests(k), opts \in OptsArgs :
       SendMessage(k, chatRequest, opts)
         => LET submitted == calls'[k].chatCompletionRequest
                expected == Spread(_completionParams, opts)
            IN  \A key \in DOMAIN expected :
                  Has(submitted, key) /\ submitted[key] = expected[key]]_vars

\* C5: the submitted list starts with a system message whose content is the
\* request's systemMessage when it has one and the instance's otherwise, and
\* that message is the only one the assembler adds besides the history and the
\* new message.
C5_SystemMessageFirst ==
  [][\A k \in Calls : Moves(k, "idle", "awaiting") =>
       \A chatRequest \in ChatRequests(k), opts \in OptsArgs :
       SendMessage(k, chatRequest, opts)
         => LET messages == calls'[k].chatCompletionRequest.messages
            IN  /\ messages[1] =
                     [content |-> IF Has(chatRequest, "systemMessage")
                                  THEN chatRequest.systemMessage ELSE _systemMessage,
                      role |-> "system"]
                /\ Len(messages) = 1 + Len(History(chatRequest.conversationId)) + 1]_vars

C5_Witness ==
  \E k \in Calls, j \in Calls :
    /\ calls[k].pc = "awaiting" /\ calls[j].pc = "awaiting"
    /\ calls[k].chatCompletionRequest.messages[1].content = "Reply in French."
    /\ calls[j].chatCompletionRequest.messages[1].content = _systemMessage

\* C6: after its system message the submitted list is the history as
\* getMessageHistory returns it when the call starts, message by message with
\* name, role and content, followed by the new message; building the request
\* adds nothing to any history.
C6_HistoryThenNewMessage ==
  [][\A k \in Calls : Moves(k, "idle", "awaiting") =>
       \A chatRequest \in ChatRequests(k), opts \in OptsArgs :
       SendMessage(k, chatRequest, opts)
         => LET messages == calls'[k].chatCompletionRequest.messages
                before == History(chatRequest.conversationId)
                n == Len(before)
            IN  /\ Len(messages) = n + 2
                /\ \A i \in 1..n :
                     /\ messages[i + 1].name = Get(before[i], "name")
                     /\ messages[i + 1].role = before[i].role
                     /\ messages[i + 1].content = before[i].content
                /\ messages[n + 2] =
                     [name |-> chatRequest.name,
                      role |-> IF Has(chatRequest, "role") THEN chatRequest.role
                               ELSE "user",
                      content |-> chatRequest.text]
                /\ Histories' = Histories]_vars

C6_Witness ==
  \E k \in Calls :
    /\ calls[k].pc = "awaiting"
    /\ Len(calls[k].read) >= 2
    /\ Len(calls[k].chatCompletionRequest.messages) = Len(calls[k].read) + 2
    /\ History(calls[k].conversationId) = calls[k].read

\* C7: setMessageHistory(id, M) makes getMessageHistory(id) return M when M has
\* at most maxMessages - 1 messages and the last maxMessages - 1 messages of M
\* otherwise.
C7_SetThenGet ==
  [][nSets' = nSets + 1 =>
       \A c \in Convs, M \in HistoryArgs :
       SetMessageHistory(c, M)
         => Histories'[c] = IF Len(M) <= _maxMessages - 1 THEN M
                            ELSE LastN(M, _maxMessages - 1)]_vars

\* C8: getMessageHistory never returns more than maxMessages - 1 messages.
C8_HistoryBounded ==
  Ready => \A c \in Convs : Len(History(c)) <= _maxMessages - 1

\* C9: a submitted message list has at most maxMessages messages.
C9_SubmittedWithinCap ==
  \A k \in Calls :
    calls[k].pc = "awaiting"
      => Len(calls[k].chatCompletionRequest.messages) <= _maxMessages

\* C9, as amended: a submitted message list has two messages more than
\* getMessageHistory returned when the call started, which for maxMessages >= 2
\* makes at most maxMessages + 1 messages.
C9_SubmittedWithinCapPlusOne ==
  \A k \in Calls :
    calls[k].pc = "awaiting"
      => LET n == Len(calls[k].chatCompletionRequest.messages)
         IN  /\ n = Len(calls[k].read) + 2
             /\ _maxMessages >= 2 => n <= _maxMessages + 1

C9_Witness ==
  \E k \in Calls :
    /\ calls[k].pc = "awaiting"
    /\ _maxMessages >= 2
    /\ Len(calls[k].chatCompletionRequest.messages) = _maxMessages + 1

\* C10: a sendMessage call that read L <= maxMessages - 3 messages and finds
\* the history as it read it when it succeeds leaves the history it read
\* followed by its outgoing and then the incoming message.
C10_GrowsByExchange ==
  [][\A k \in Calls : Moves(k, "awaiting", "returned") =>
       \A completion \in Completions :
       ( /\ CompletionResolves(k, completion)
         /\ Len(calls[k].read) <= _maxMessages - 3
         /\ History(calls[k].conversationId) = calls[k].read )
         => Histories'[calls[k].conversationId] =
              calls[k].read \o <<Outgoing(calls[k]), Incoming(completion)>>]_vars

C10_Witness ==
  \E k \in Calls, c \in Convs :
    /\ calls[k].pc = "returned"
    /\ Len(sentLog[c]) >= 2
    /\ Len(History(c)) >= 3
    /\ Len(History(c)) <= _maxMessages - 1
    /\ LastN(History(c), 2) = LastN(sentLog[c], 2)

\* C11: when the completion call resolves with a response whose first choice
\* has no message, sendMessage throws a CompletionError whose message is the
\* response's statusText and whose type, param and code are undefined, and
\* the call has no return value.
C11_NoMessageThrows ==
  [][\A k \in Calls : Moves(k, "awaiting", "threw") =>
       \A completion \in Completions :
       ( /\ CompletionResolves(k, completion)
         /\ ~HasMessage(completion) )
         => /\ calls'[k].error =
                 [class |-> "CompletionError", message |-> completion.statusText,
                  type |-> Undefined, param |-> Undefined, code |-> Undefined]
            /\ ~Has(calls'[k], "result")]_vars

C11_Witness ==
  \E k \in Calls, j \in Calls :
    /\ calls[k].pc = "threw" /\ calls[k].error.message = "No Content"
    /\ calls[j].pc = "threw" /\ calls[j].error.message = "Accepted"

\* C12: when the completion call rejects, sendMessage throws a CompletionError
\* whose message, type, param and code are those of the failure, undefined
\* where the failure has none; the call has no return value, and a call that
\* threw submits nothing again: its frame stays as it is.
C12_FailureForwarded ==
  [][/\ \A k \in Calls : Moves(k, "awaiting", "threw") =>
          \A e \in Failures :
          CompletionRejects(k, e)
            => /\ calls'[k].error.class = "CompletionError"
               /\ calls'[k].error.message = Get(e, "message")
               /\ \A key \in {"type", "param", "code"} :
                    calls'[k].error[key] = IF Has(e, key) THEN e[key] ELSE Undefined
               /\ DOMAIN calls'[k] = {"pc", "error"}
     /\ \A k \in Calls : calls[k].pc = "threw" => calls'[k] = calls[k]]_vars

C12_Witness ==
  \E k \in Calls, j \in Calls :
    /\ calls[k].pc = "threw" /\ calls[k].error.code = "model_not_found"
    /\ calls[j].pc = "threw"
    /\ calls[j].error.message = "Request failed with status code 401"
    /\ calls[j].error.code = Undefined

C14_ApiKeyRequired ==
  /\ (ctorError # Undefined) <=> (_apiKey \in {Undefined, ""})
  /\ ctorError # Undefined
       => /\ ctorError = "OpenAI missing required apiKey"
          /\ _messagesCache = NoKeys
          /\ \A k \in Calls : calls[k].pc = "idle"
          /\ nSets = 0
  /\ \A opts \in ConstructorOpts :
       (Constructor(opts).error # Undefined)
         <=> (~Has(opts, "apiKey") \/ opts.apiKey = "")

C14_Witness ==
  /\ ctorError = "OpenAI missing required apiKey"
  /\ _apiKey = Undefined
  /\ _maxMessages = MaxCap
  /\ _systemMessage = "Be terse."

\* C15: two sendMessage calls on one conversation that are both awaiting
\* their completion and read the same history R (with room for four more
\* messages) each append their own pair when they succeed: the call whose
\* completion resolves first leaves R followed by its pair while the other
\* call, whose submitted list has neither message, is still awaiting; the
\* other call then leaves R, the first pair and its own pair, whichever of
\* the two calls was started first.
C15_BothAppend ==
  [][\A k \in Calls : Moves(k, "awaiting", "returned") =>
       \A completion \in Completions :
       ( /\ CompletionResolves(k, completion)
         /\ Len(calls[k].read) <= _maxMessages - 5 )
         => LET c == calls[k].conversationId
                R == calls[k].read
                pair == <<Outgoing(calls[k]), Incoming(completion)>>
            IN  /\ \A j \in Calls \ {k} :
                     ( /\ calls[j].pc = "awaiting"
                       /\ calls[j].conversationId = c
                       /\ calls[j].read = R
                       /\ History(c) = R )
                       => /\ Histories'[c] = R \o pair
                          /\ calls'[j] = calls[j]
                          /\ calls[j].chatCompletionRequest.messages =
                               <<calls[j].chatCompletionRequest.messages[1]>>
                               \o EmitAll(R) \o <<Emit(Outgoing(calls[j]))>>
                /\ \A j \in Calls \ {k} :
                     ( /\ calls[j].pc = "returned"
                       /\ Len(sentLog[c]) >= 2
                       /\ LastN(sentLog[c], 2)[1].content = TextOf(j)
                       /\ History(c) = R \o LastN(sentLog[c], 2) )
                       => Histories'[c] = R \o LastN(sentLog[c], 2) \o pair]_vars

\* Call 2 was started after call 1 and its pair comes first.
C15_Witness ==
  /\ nSets = 0
  /\ calls[1].pc = "returned" /\ calls[2].pc = "returned"
  /\ \E c \in Convs :
       /\ Len(History(c)) = 4
       /\ [i \in 1..4 |-> History(c)[i].content]
            = <<TextOf(2), "Hello", TextOf(1), "Hello">>

\* The array the cache holds for conversation c.
Stored(c) == heap[_messagesCache[c]]

\* C16: in the array stored for a conversation that only sendMessage wrote
\* to, every outgoing message (the ones with a sender name) is immediately
\* followed by the incoming message of the same call.
C16_PairsAdjacent ==
  \A c \in DOMAIN _messagesCache :
    onlySend[c] =>
      \A i \in 1..Len(Stored(c)) :
        Has(Stored(c)[i], "name") =>
          /\ i < Len(Stored(c))
          /\ \E n \in 1..(Len(sentLog[c]) - 1) :
               /\ n % 2 = 1
               /\ Stored(c)[i] = sentLog[c][n]
               /\ Stored(c)[i + 1] = sentLog[c][n + 1]

\* The step is an operation on conversation c: a sendMessage call on c
\* starting or ending, getMessageHistory(c), or setMessageHistory(c, ...).
OpOn(c) ==
  \/ \E k \in Calls : Moves(k, "idle", "awaiting") /\ calls'[k].conversationId = c
  \/ \E k \in Calls :
       /\ calls[k].pc = "awaiting" /\ calls[k].conversationId = c
       /\ calls'[k].pc \in {"returned", "threw"}
  \/ GetMessageHistory(c)
  \/ /\ nSets' = nSets + 1
     /\ \/ \E M \in HistoryArgs : SetMessageHistory(c, M)
        \/ \E other \in Convs : SetMessageHistoryShared(c, other)

\* C17: an operation on conversation c leaves what getMessageHistory returns
\* for every other conversation as it was.
C17_Isolated ==
  [][\A c \in Convs :
       OpOn(c) => \A d \in Convs \ {c} : Histories'[d] = Histories[d]]_vars

\* C18: the array stored for a conversation that only sendMessage wrote to
\* never holds more than maxMessages messages.
C18_StoredWithinCap ==
  \A c \in DOMAIN _messagesCache :
    onlySend[c] => Len(Stored(c)) <= _maxMessages

\* More messages were to be appended than the array holds.
C18_Witness ==
  \E c \in DOMAIN _messagesCache :
    /\ onlySend[c]
    /\ _maxMessages >= 2
    /\ Len(Stored(c)) = _maxMessages
    /\ Len(sentLog[c]) > _maxMessages

\* C19: a sendMessage call on conversation c that succeeds when the array
\* stored for c is an array M given to setMessageHistory after the call read
\* the history (M is not what the call read, and has at most maxMessages - 3
\* messages) leaves M followed by its outgoing and the incoming message.
C19_AppendsToReplaced ==
  [][\A k \in Calls : Moves(k, "awaiting", "returned") =>
       \A completion \in Completions :
       CompletionResolves(k, completion)
         => LET c == calls[k].conversationId
                M == Stored(c)
            IN  ( /\ M \in HistoryArgs
                  /\ M # calls[k].read
                  /\ Len(M) <= _maxMessages - 3 )
                  => Histories'[c] =
                       M \o <<Outgoing(calls[k]), Incoming(completion)>>]_vars

\* Call 2 read the empty history after call 1 had started, and the one array
\* given to setMessageHistory is followed by the pair of call 1.
C19_Witness ==
  \E c \in Convs, M \in HistoryArgs :
    /\ nSets = 1
    /\ Len(M) >= 1 /\ Len(M) <= _maxMessages - 3
    /\ calls[1].pc = "returned"
    /\ calls[2].pc = "awaiting"
    /\ calls[2].conversationId = c
    /\ calls[2].read = <<>>
    /\ Len(History(c)) = Len(M) + 2
    /\ SubSeq(History(c), 1, Len(M)) = M
    /\ History(c)[Len(M) + 1].content = TextOf(1)

====
